---- MODULE Spec2Model ----
(***************************************************************************)
(* The Role store of src/models/role.rs: the roles table, the callers of   *)
(* Role::create, get_or_create, find_all, get_by_id, get_by_team_id,       *)
(* get_by_person_id and update, and the connection pool they share.        *)
(*                                                                         *)
(* A statement is one step.  An operation that issues a single statement   *)
(* (create, find_all, get_by_*, update) checks a connection out, runs the  *)
(* statement and drops the connection in one step.  get_or_create is the   *)
(* only operation that spans several statements; its steps are separate    *)
(* actions, and the connections it holds between them are state.           *)
(***************************************************************************)
EXTENDS Integers, FiniteSets, TLC

\* ---------------------------------------------------------------- bounds

\* Writes (inserts and updates) the store accepts; also the number of ids.
MaxClock == 2

\* Connections of the shared pool.
PoolSize == 3

Callers == {"c1", "c2"}

Persons == {"P1", "P2"}

Teams == {"T1", "T2"}

\* The person two racing get_or_create calls share.
RacePerson == "P1"

Ids == 1..MaxClock

\* Timestamps: 0 is a time before the first write.
Stamps == 0..MaxClock

\* ------------------------------------------------------------ data types

None == [some |-> FALSE]

Some(d) == [some |-> TRUE, v |-> d]

\* NewRole::new: the eight caller-supplied fields.  The six fields besides
\* the two foreign ids vary together with v (effort in tenths).
NewRole(p, t, v) ==
    [person_id       |-> p,
     team_id         |-> t,
     title_en        |-> IF v = 1 THEN "Engineer" ELSE "Analyst",
     title_fr        |-> IF v = 1 THEN "Ingenieur" ELSE "Analyste",
     effort          |-> IF v = 1 THEN 10 ELSE 5,
     active          |-> (v = 1),
     start_datestamp |-> v,
     end_date        |-> IF v = 1 THEN None ELSE Some(2)]

\* The payloads callers pass: a team comes with its titles, effort and
\* dates, so that payloads of one person differ in every other field.
VariantOf(t) == IF t = "T1" THEN 1 ELSE 2

NewRoles == {NewRole(p, t, VariantOf(t)) : p \in Persons, t \in Teams}

\* The payloads of the racing callers: one person, differing otherwise.
RaceNewRoles == {n \in NewRoles : n.person_id = RacePerson}

\* struct Role: a NewRole with id, created_at and updated_at.
Role(i, n, c, u) ==
    [id              |-> i,
     person_id       |-> n.person_id,
     team_id         |-> n.team_id,
     title_en        |-> n.title_en,
     title_fr        |-> n.title_fr,
     effort          |-> n.effort,
     active          |-> n.active,
     start_datestamp |-> n.start_datestamp,
     end_date        |-> n.end_date,
     created_at      |-> c,
     updated_at      |-> u]

\* The Role values a caller passes to update: a Role as create returns it
\* (both timestamps those of one insert, at any time), with any id and any
\* payload put in its pub fields.
Roles == {Role(i, n, t, t) : i \in Ids, n \in NewRoles, t \in Stamps}

\* The Role values the racing callers pass to update.
RaceRoles == {Role(i, n, 0, 0) : i \in Ids, n \in RaceNewRoles}

\* The caller-supplied fields of a Role or NewRole.
Supplied(r) ==
    [person_id       |-> r.person_id,
     team_id         |-> r.team_id,
     title_en        |-> r.title_en,
     title_fr        |-> r.title_fr,
     effort          |-> r.effort,
     active          |-> r.active,
     start_datestamp |-> r.start_datestamp,
     end_date        |-> r.end_date]

\* diesel's QueryResult.
DbOk(v) == [ok |-> TRUE, val |-> v]

DbErr(e) == [ok |-> FALSE, err |-> e]

\* async_graphql's Result, and the third way a call can end: a panic.
Ok(v) == [kind |-> "Ok", val |-> v]

Err(m) == [kind |-> "Err", msg |-> m]

Panic(m) == [kind |-> "Panic", msg |-> m]

\* A Vec<Role>, its order left open by the engine.
Vec(rows) == [rows |-> rows]

NoArg == [none |-> TRUE]

IdArg(i) == [id |-> i]

\* ----------------------------------------------------------------- state

VARIABLES
    store,   \* the rows of the roles table
    clock,   \* the store's time: the number of writes so far
    pool,    \* connections free in the shared pool
    pc,      \* each caller's position: idle or inside get_or_create
    arg,     \* get_or_create's argument, while the call is in flight
    res,     \* get_or_create's lookup error, once the lookup has failed
    held,    \* connections each caller has checked out
    last,    \* the call that returned most recently
    prev     \* what the call before it created or got, if it did

vars == <<store, clock, pool, pc, arg, res, held, last, prev>>

\* ----------------------------------------------------- the query layer

IdsOf(st) == {r.id : r \in st}

\* A slip: the filter names the other foreign key.
ByPersonTeamColumn(st, p) == {r \in st : r.team_id = p}

\* .filter(roles::person_id.eq(..))
ByPerson(st, p) == {r \in st : r.person_id = p}

\* .filter(roles::team_id.eq(..))
ByTeam(st, t) == {r \in st : r.team_id = t}

\* .filter(roles::id.eq(..))
ById(st, i) == {r \in st : r.id = i}

\* .first(): one of the matching rows (no ORDER BY: the engine picks), or
\* NotFound when none matches.
First(rows) ==
    IF rows = {} THEN {DbErr("NotFound")} ELSE {DbOk(r) : r \in rows}

\* A slip: no row is an error, as it is for first().
LoadNotFound(rows) == IF rows = {} THEN DbErr("NotFound") ELSE DbOk(Vec(rows))

\* .load(): all the matching rows.
Load(rows) == DbOk(Vec(rows))

\* A slip: the payload's end_date is not among the inserted columns.
InsertRowNoEndDate(n, i, now) == [Role(i, n, now, now) EXCEPT !.end_date = None]

\* A slip: every row is inserted under one fixed id.
InsertRowFixedId(n, i, now) == Role(1, n, now, now)

\* insert_into(roles::table).values(role).get_result(): the store supplies
\* the id and both timestamps.
InsertRow(n, i, now) == Role(i, n, now, now)

\* update(roles::table).filter(id.eq(self.id)).set(self): the changeset of
\* a Role holds every column but the primary key.
ChangeRow(old, r) ==
    [old EXCEPT
        !.person_id       = r.person_id,
        !.team_id         = r.team_id,
        !.title_en        = r.title_en,
        !.title_fr        = r.title_fr,
        !.effort          = r.effort,
        !.active          = r.active,
        !.start_datestamp = r.start_datestamp,
        !.end_date        = r.end_date,
        !.created_at      = r.created_at,
        !.updated_at      = r.updated_at]

\* graphql_translate, and the ? operator: a diesel result as the uniform
\* Result.
GraphqlTranslate(r) == IF r.ok THEN Ok(r.val) ELSE Err(r.err)

\* .expect("Unable to create role"), then Ok(role): the created Role, or a
\* panic when create returned an error.
Expect(r) == IF r.kind = "Ok" THEN Ok(r.val) ELSE Panic("Unable to create role")

\* What the environment does to a step: nothing, fail the connection
\* checkout, or fail the statement.
Faults == {"none", "conn", "query"}

\* --------------------------------------------------------------- records

\* A returned call: who, which operation, its argument, the outcome of
\* get_or_create's lookup ("none" elsewhere), the fault met, the result.
Call(c, op, a, lk, f, r) ==
    [caller |-> c, op |-> op, arg |-> a, lookup |-> lk, fault |-> f, ret |-> r]

NoCall == Call("none", "none", NoArg, "none", "none", Ok(NoArg))

\* What is kept of a call once the next one has returned: of a create or
\* get_or_create that returned a Role, the caller, the payload's person,
\* the lookup and the Role's id; of any other call, nothing.
NoPrev == [caller |-> "none", op |-> "none", person_id |-> "none", lookup |-> "none", id |-> 0]

Digest(call) ==
    IF call.op \in {"create", "get_or_create"} /\ call.ret.kind = "Ok"
    THEN [caller |-> call.caller, op |-> call.op, person_id |-> call.arg.person_id,
          lookup |-> call.lookup, id |-> call.ret.val.id]
    ELSE NoPrev

\* A call returns.
Returned(call) ==
    /\ last' = call
    /\ prev' = Digest(last)

Init ==
    /\ store = {}
    /\ clock = 0
    /\ pool = PoolSize
    /\ pc = [c \in Callers |-> "idle"]
    /\ arg = [c \in Callers |-> NoArg]
    /\ res = [c \in Callers |-> "none"]
    /\ held = [c \in Callers |-> 0]
    /\ last = NoCall
    /\ prev = NoPrev

\* --------------------------------------------------------------- actions

\* A different create: a person who has a Role gets it back, and nothing is
\* inserted.
CreateCallUpsert(n, st, now, f, i) ==
    IF f = "conn"
    THEN [ret |-> Err("ConnError"), store |-> st]
    ELSE LET had == {x \in st : x.person_id = n.person_id}
             r == IF f = "query" THEN DbErr("QueryError")
                  ELSE IF had # {} THEN DbOk(CHOOSE x \in had : TRUE)
                  ELSE DbOk(Role(i, n, now, now))
         IN  [ret   |-> IF r.ok THEN Ok(r.val) ELSE Err(r.err),
              store |-> IF r.ok THEN st \cup {r.val} ELSE st]

\* Role::create as a function of the store: the result and the new store.
CreateCall(n, st, now, f, i) ==
    IF f = "conn"
    THEN [ret |-> Err("ConnError"), store |-> st]
    ELSE LET r == IF f = "query" THEN DbErr("QueryError")
                  ELSE DbOk(InsertRow(n, i, now))
         IN  [ret   |-> GraphqlTranslate(r),
              store |-> IF r.ok THEN st \cup {r.val} ELSE st]

\* A fault-free write needs room: time left.
CanWrite == clock < MaxClock

\* The id the store gives a new row: a UUID no row has.  Ids are only ever
\* compared, so the least unused one stands for any of them.
FreshIds ==
    LET unused == Ids \ IdsOf(store)
    IN  {i \in unused : \A j \in unused : i <= j}

\* The ids a fault-free insert may draw (a fresh UUID); a failed one draws
\* none.
InsertIds(f) == IF f = "none" THEN FreshIds ELSE {0}

\* The arguments tried with fault f: a call that meets a fault never reads
\* its argument, so one of them stands for all.
Args(f, S) == IF f = "none" THEN S ELSE {CHOOSE x \in S : TRUE}

\* Role::create
Create(c, NR) ==
    /\ pc[c] = "idle"
    /\ \E f \in Faults :
      \E n \in Args(f, NR) :
        /\ f # "conn" => pool > 0
        /\ f = "none" => CanWrite
        /\ \E i \in InsertIds(f) :
            LET out == CreateCall(n, store, clock + 1, f, i)
            IN  /\ store' = out.store
                /\ clock' = IF f = "none" THEN clock + 1 ELSE clock
                /\ Returned(Call(c, "create", n, "none", f, out.ret))
    /\ UNCHANGED <<pool, pc, arg, res, held>>

\* get_or_create, line 100: the connection is checked out, or the call
\* returns the error.
GocConnect(c, NR) ==
    /\ pc[c] = "idle"
    /\ \E f \in {"none", "conn"} :
      \E n \in Args(f, NR) :
        \/ /\ f = "none"
           /\ pool > 0
           /\ pool' = pool - 1
           /\ held' = [held EXCEPT ![c] = 1]
           /\ pc' = [pc EXCEPT ![c] = "goc_lookup"]
           /\ arg' = [arg EXCEPT ![c] = n]
           /\ UNCHANGED <<store, clock, res, last, prev>>
        \/ /\ f = "conn"
           /\ Returned(Call(c, "get_or_create", n, "none", "conn", Err("ConnError")))
           /\ UNCHANGED <<store, clock, pool, pc, arg, res, held>>

\* What the lookup can come back with: the first row of the person, or
\* NotFound, or the statement fails.
LookupResults(st, n) == First(ByPerson(st, n.person_id)) \cup {DbErr("QueryError")}

\* The match on the lookup's result: found, or any error at all.
LookupFound(r) == r.ok

\* A call of c returns: its connections go back to the pool.
Return(c) ==
    /\ pool' = pool + held[c]
    /\ held' = [held EXCEPT ![c] = 0]
    /\ pc' = [pc EXCEPT ![c] = "idle"]
    /\ arg' = [arg EXCEPT ![c] = NoArg]
    /\ res' = [res EXCEPT ![c] = "none"]

\* A different match: only NotFound leads to create, any other error of the
\* lookup is returned.
GocLookupNotFoundOnly(c) ==
    /\ pc[c] = "goc_lookup"
    /\ \E r \in LookupResults(store, arg[c]) :
        IF LookupFound(r)
        THEN /\ Returned(Call(c, "get_or_create", arg[c], "Found", "none", Ok(r.val)))
             /\ Return(c)
             /\ UNCHANGED <<store, clock>>
        ELSE IF r.err = "NotFound"
        THEN /\ res' = [res EXCEPT ![c] = r.err]
             /\ pc' = [pc EXCEPT ![c] = "goc_create"]
             /\ UNCHANGED <<store, clock, pool, arg, held, last, prev>>
        ELSE /\ Returned(Call(c, "get_or_create", arg[c], r.err, "query", Err(r.err)))
             /\ Return(c)
             /\ UNCHANGED <<store, clock>>

\* get_or_create, lines 102-111: the lookup; a row found is returned, any
\* error leads to create.
GocLookup(c) ==
    /\ pc[c] = "goc_lookup"
    /\ \E r \in LookupResults(store, arg[c]) :
        IF LookupFound(r)
        THEN /\ Returned(Call(c, "get_or_create", arg[c], "Found", "none", Ok(r.val)))
             /\ Return(c)
             /\ UNCHANGED <<store, clock>>
        ELSE /\ res' = [res EXCEPT ![c] = r.err]
             /\ pc' = [pc EXCEPT ![c] = "goc_create"]
             /\ UNCHANGED <<store, clock, pool, arg, held, last, prev>>

\* get_or_create, line 112, entering Role::create (line 90): a second
\* connection is checked out while the first is still held, or create
\* returns the error and expect panics.
GocCreateConnect(c) ==
    /\ pc[c] = "goc_create"
    /\ \/ /\ pool > 0
          /\ pool' = pool - 1
          /\ held' = [held EXCEPT ![c] = 2]
          /\ pc' = [pc EXCEPT ![c] = "goc_insert"]
          /\ UNCHANGED <<store, clock, arg, res, last, prev>>
       \/ /\ LET out == CreateCall(arg[c], store, clock + 1, "conn", 0)
             IN  Returned(Call(c, "get_or_create", arg[c], res[c], "conn", Expect(out.ret)))
          /\ Return(c)
          /\ UNCHANGED <<store, clock>>

\* get_or_create, lines 112-116, inside Role::create (lines 92-96): the
\* insert, and the return of the created Role.
GocCreateInsert(c) ==
    /\ pc[c] = "goc_insert"
    /\ \E f \in Faults \ {"conn"} :
        /\ f = "none" => CanWrite
        /\ \E i \in InsertIds(f) :
            LET out == CreateCall(arg[c], store, clock + 1, f, i)
            IN  /\ store' = out.store
                /\ clock' = IF f = "none" THEN clock + 1 ELSE clock
                /\ Returned(Call(c, "get_or_create", arg[c], res[c], f, Expect(out.ret)))
    /\ Return(c)

\* A read as a function of the store: connection()?, then the statement's
\* result through ?.
ReadCall(f, r) ==
    IF f = "conn" THEN Err("ConnError")
    ELSE IF f = "query" THEN Err("QueryError")
    ELSE GraphqlTranslate(r)

\* A read by an idle caller: the store is left alone.
Read(c, op, a, f, r) ==
    /\ pc[c] = "idle"
    /\ f # "conn" => pool > 0
    /\ Returned(Call(c, op, a, "none", f, ReadCall(f, r)))
    /\ UNCHANGED <<store, clock, pool, pc, arg, res, held>>

\* Role::find_all
FindAll(c) ==
    \E f \in Faults : Read(c, "find_all", NoArg, f, Load(store))

\* Role::get_by_id
GetById(c) ==
    \E i \in Ids, f \in Faults :
        \E r \in First(ById(store, i)) : Read(c, "get_by_id", IdArg(i), f, r)

\* Role::get_by_team_id
GetByTeamId(c) ==
    \E t \in Teams, f \in Faults :
        Read(c, "get_by_team_id", IdArg(t), f, Load(ByTeam(store, t)))

\* Role::get_by_person_id
GetByPersonId(c) ==
    \E p \in Persons, f \in Faults :
        Read(c, "get_by_person_id", IdArg(p), f, Load(ByPerson(store, p)))

\* A different statement: an id no row has is inserted.
ChangedOrInserted(st, r) ==
    IF {x \in st : x.id = r.id} = {} THEN {r}
    ELSE {ChangeRow(old, r) : old \in {x \in st : x.id = r.id}}

\* The rows the UPDATE statement matched, as it leaves them.
Changed(st, r) == {ChangeRow(old, r) : old \in ById(st, r.id)}

\* The table after the UPDATE statement.
UpdateRows(st, r) == (st \ ById(st, r.id)) \cup Changed(st, r)

\* Role::update as a function of the store: the result and the new store.
\* x is what get_result() gives: the first row of RETURNING, NotFound when
\* no row matched.
UpdateCall(r, st, f, x) ==
    IF f = "conn" THEN [ret |-> Err("ConnError"), store |-> st]
    ELSE IF f = "query" THEN [ret |-> Err("QueryError"), store |-> st]
    ELSE [ret |-> GraphqlTranslate(x), store |-> UpdateRows(st, r)]

\* Role::update
Update(c, RV) ==
    /\ pc[c] = "idle"
    /\ \E f \in Faults :
      \E r \in Args(f, RV) :
        /\ f # "conn" => pool > 0
        /\ \E x \in First(Changed(store, r)) :
            /\ (f = "none" /\ x.ok) => CanWrite
            /\ LET out == UpdateCall(r, store, f, x)
               IN  /\ store' = out.store
                   /\ clock' = IF f = "none" /\ x.ok THEN clock + 1 ELSE clock
                   /\ Returned(Call(c, "update", r, "none", f, out.ret))
    /\ UNCHANGED <<pool, pc, arg, res, held>>

\* The steps of one caller, with the payloads and Role values it passes.
Step(c, NR, RV) ==
    \/ Create(c, NR)
    \/ GocConnect(c, NR)
    \/ GocLookup(c)
    \/ GocCreateConnect(c)
    \/ GocCreateInsert(c)
    \/ FindAll(c)
    \/ GetById(c)
    \/ GetByTeamId(c)
    \/ GetByPersonId(c)
    \/ Update(c, RV)

\* One caller, one call after the other, over every payload and value.
Next == Step("c1", NewRoles, Roles)

Spec == Init /\ [][Next]_vars

\* Concurrent callers.
RaceNext == \E c \in Callers : Step(c, RaceNewRoles, RaceRoles)

RaceSpec == Init /\ [][RaceNext]_vars

\* ------------------------------------------------------------ properties

\* The stored Roles of person p, and the ids in use.
RolesOf(st, p) == {r \in st : r.person_id = p}

UsedIds(st) == {r.id : r \in st}

\* The step is the return of one of the single-statement calls of
\* operation op (no caller moves).
Atomic(op) == pc' = pc /\ last'.op = op

\* The step is the return of caller c's get_or_create.
GocReturns(c) == pc[c] # "idle" /\ pc'[c] = "idle"

\* Caller c is inside a get_or_create that follows, with nothing returning
\* in between, its own get_or_create for the same person, which returned a
\* Role.
Second(c) ==
    /\ pc[c] = "goc_lookup"
    /\ last.caller = c
    /\ last.op = "get_or_create"
    /\ last.ret.kind = "Ok"
    /\ arg[c].person_id = last.arg.person_id

\* What both readings of C1 share: when the second call's lookup does not
\* fail, the call returns at once a stored Role of the person, and the
\* store is as it was.
SecondFinds(c) ==
    /\ GocReturns(c)
    /\ last'.lookup = "Found"
    /\ last'.ret.kind = "Ok"
    /\ last'.ret.val \in RolesOf(store, arg[c].person_id)
    /\ store' = store

\* C1 as stated: get_or_create(a) then get_or_create(b) with the same
\* person_id, one after the other without a failure, return the same id,
\* and the second call inserts no row and changes none.
C1Original ==
    [][\A c \in Callers :
        (Second(c) /\ pc'[c] # "goc_lookup" /\ res'[c] # "QueryError")
            => SecondFinds(c) /\ last'.ret.val.id = last.ret.val.id]_vars

\* C1 amended: the second call returns a stored Role of that person,
\* inserts no row and changes none; its id is the first call's whenever the
\* store holds one Role of that person only (the lookup has no ORDER BY:
\* with several, the engine picks the first).
C1Amended ==
    [][\A c \in Callers :
        (Second(c) /\ pc'[c] # "goc_lookup" /\ res'[c] # "QueryError")
            => /\ SecondFinds(c)
               /\ Cardinality(RolesOf(store, arg[c].person_id)) = 1
                    => last'.ret.val.id = last.ret.val.id]_vars

\* Two get_or_create calls in a row for one person, with payloads that
\* differ, have returned the same id.
C1Witness ==
    /\ last.op = "get_or_create" /\ prev.op = "get_or_create"
    /\ last.caller = prev.caller
    /\ last.ret.kind = "Ok"
    /\ last.arg.person_id = prev.person_id
    /\ last.lookup = "Found"
    /\ last.ret.val.id = prev.id
    /\ Supplied(last.ret.val) # last.arg

\* Two get_or_create calls for one person, by different callers, both of
\* whose lookups came back NotFound, have returned one after the other.
BothMissed ==
    /\ last.op = "get_or_create" /\ prev.op = "get_or_create"
    /\ last.caller # prev.caller
    /\ last.arg.person_id = prev.person_id
    /\ last.lookup = "NotFound" /\ prev.lookup = "NotFound"
    /\ last.ret.kind = "Ok"

\* C2: get_or_create is not atomic: when two concurrent calls for a person
\* with no Role both see no row, both insert, and the store holds two
\* Roles of that person with different ids.
C2Duplicates ==
    BothMissed =>
        /\ last.ret.val.id # prev.id
        /\ \E r1, r2 \in RolesOf(store, last.arg.person_id) :
            r1.id = prev.id /\ r2.id = last.ret.val.id

\* Both lookups saw no row, both calls inserted: two Roles of the person.
C2Witness ==
    /\ BothMissed
    /\ Cardinality(RolesOf(store, last.arg.person_id)) = 2
    /\ Cardinality(UsedIds(RolesOf(store, last.arg.person_id))) = 2

\* The row of the store with the id of r, before and after the step.
Before(r) == {x \in store : x.id = r.id}

After(r) == {x \in store' : x.id = r.id}

\* C3 as stated: a successful update of r changes only the row with r's id:
\* its caller-supplied fields become r's, its id and created_at stay, its
\* updated_at is later than before, and every other row is unchanged.
C3Original ==
    [][(Atomic("update") /\ last'.ret.kind = "Ok") =>
        LET r == last'.arg
        IN  /\ Cardinality(After(r)) = 1
            /\ \A new \in After(r) : Supplied(new) = Supplied(r)
            /\ \A old \in Before(r), new \in After(r) :
                /\ new.created_at = old.created_at
                /\ new.updated_at > old.updated_at
            /\ store' \ After(r) = store \ Before(r)]_vars

\* C4: a create(n) that returns r gives r an id no stored row had, and a
\* get_by_id(r.id) right after it returns a record with n's eight fields.
C4CreateThenGet ==
    [][/\ (Atomic("create") /\ last'.ret.kind = "Ok") =>
            /\ last'.ret.val.id \notin UsedIds(store)
            /\ Supplied(last'.ret.val) = last'.arg
       /\ (/\ Atomic("get_by_id")
           /\ last.op = "create" /\ last.ret.kind = "Ok"
           /\ last'.arg.id = last.ret.val.id
           /\ last'.fault = "none") =>
            /\ last'.ret.kind = "Ok"
            /\ last'.ret.val.id = last.ret.val.id
            /\ Supplied(last'.ret.val) = last.arg]_vars

\* A get_by_id of the id a create has just returned has succeeded.
C4Witness ==
    /\ last.op = "get_by_id" /\ prev.op = "create"
    /\ last.arg.id = prev.id
    /\ last.ret.kind = "Ok"
    /\ last.ret.val.person_id = prev.person_id
    /\ Supplied(last.ret.val) \in NewRoles

\* C5 as stated: a call that meets a connection or query failure returns
\* an error value; no call ends otherwise, get_or_create with a failing
\* create included.
C5Original ==
    /\ last.ret.kind # "Panic"
    /\ last.fault # "none" => last.ret.kind = "Err"

\* C6: in get_or_create every failure of the lookup, NotFound or not,
\* leads to create: the lookup step returns a found Role or goes on to
\* create, and after a lookup that failed otherwise the insert adds a row
\* for the person whatever the store holds, a second one when the person
\* has a Role.
C6LookupErrorCreates ==
    [][\A c \in Callers :
        /\ (pc[c] = "goc_lookup" /\ pc'[c] # "goc_lookup") =>
            \/ GocReturns(c) /\ last'.lookup = "Found" /\ last'.ret.kind = "Ok"
            \/ pc'[c] = "goc_create" /\ res'[c] \in {"NotFound", "QueryError"}
        /\ (/\ pc[c] = "goc_insert" /\ res[c] = "QueryError"
            /\ GocReturns(c) /\ last'.ret.kind = "Ok") =>
            LET p == arg[c].person_id
            IN  /\ last'.ret.val.id \notin UsedIds(store)
                /\ store' = store \cup {last'.ret.val}
                /\ RolesOf(store', p) = RolesOf(store, p) \cup {last'.ret.val}
                /\ RolesOf(store, p) # {} => Cardinality(RolesOf(store', p)) > 1]_vars

\* A get_or_create whose lookup failed with a query error has inserted a
\* second Role for a person who had one.
C6Witness ==
    /\ last.op = "get_or_create"
    /\ last.lookup = "QueryError"
    /\ last.ret.kind = "Ok"
    /\ Cardinality(RolesOf(store, last.arg.person_id)) = 2

\* C7 as stated: a call in flight holds at most one connection of the
\* pool, and none once it has returned.
C7Original ==
    \A c \in Callers :
        /\ held[c] <= 1
        /\ pc[c] = "idle" => held[c] = 0

\* C8: get_by_id and update of an id no stored row has return an error,
\* NotFound unless the connection or the statement failed, and leave the
\* store as it was.
C8MissingId ==
    [][((Atomic("get_by_id") \/ Atomic("update")) /\ last'.arg.id \notin UsedIds(store)) =>
        /\ last'.ret.kind = "Err"
        /\ last'.fault = "none" => last'.ret.msg = "NotFound"
        /\ store' = store]_vars

\* An update of an id that is not stored has returned NotFound, the store
\* not being empty.
C8Witness ==
    /\ last.op = "update"
    /\ last.arg.id \notin UsedIds(store)
    /\ last.ret = Err("NotFound")
    /\ store # {}

\* C9: without a failure, get_by_team_id and get_by_person_id return
\* exactly the stored rows of the team or person, an empty sequence and no
\* error when there is none, and leave the store as it was.
C9Filtered ==
    [][/\ (Atomic("get_by_team_id") /\ last'.fault = "none") =>
            /\ last'.ret = Ok(Vec({r \in store : r.team_id = last'.arg.id}))
            /\ store' = store
       /\ (Atomic("get_by_person_id") /\ last'.fault = "none") =>
            /\ last'.ret = Ok(Vec({r \in store : r.person_id = last'.arg.id}))
            /\ store' = store]_vars

\* A get_by_team_id of a team without a Role has returned the empty
\* sequence, while the store holds Roles of another team.
C9Witness ==
    /\ last.op = "get_by_team_id"
    /\ last.ret = Ok(Vec({}))
    /\ store # {}

\* C10: no two stored rows share an id and no id ever leaves the store:
\* only create and get_or_create add a row, only update changes one, and
\* nothing removes a row or changes its id.
C10Ids ==
    [][/\ \A r1, r2 \in store' : r1.id = r2.id => r1 = r2
       /\ UsedIds(store) \subseteq UsedIds(store')
       /\ UsedIds(store') # UsedIds(store) =>
            /\ last'.op \in {"create", "get_or_create"}
            /\ Cardinality(store') = Cardinality(store) + 1
            /\ store \subseteq store'
       /\ ~(store \subseteq store') => Atomic("update")]_vars

\* Two callers are inside get_or_create while the store holds a row that
\* an update has changed.
C10Witness ==
    /\ \A c \in Callers : pc[c] # "idle"
    /\ last.op = "update" /\ last.ret.kind = "Ok"
    /\ \E r \in store : r.created_at = 0

====
